---- MODULE Spec2Model ----
(***************************************************************************)
(* LittleNavmapIntegration (src/littlenavmap_integration.py): the poll     *)
(* loop, the endpoint fallback, the normalizer, the phase classifier, the  *)
(* milestone tracker, the listener fan-out and start()/stop().             *)
(*                                                                         *)
(* Python values.  A dict is a function over its keys; d.get(k, default)   *)
(* is Get(d, k, default).  A JSON number field is a record                 *)
(* [t |-> "num", v |-> n]; the other JSON values a numeric field can hold  *)
(* are [t |-> "null"], [t |-> "str"] (an unparseable string),              *)
(* [t |-> "inf"] and [t |-> "nan"] (json.loads accepts Infinity and NaN). *)
(*                                                                         *)
(* Units.  Floats are fixed point: altitudes in feet, raw speeds in        *)
(* 0.1 m/s, speed_kt in 0.001 kt, vertical_speed_fpm in 0.001 ft/min.      *)
(*                                                                         *)
(* asyncio.  The poll task and its callers share one event loop, so the    *)
(* code between two awaits that suspend runs without interleaving: the     *)
(* callers' actions (start, stop, add_listener, remove_listener) are       *)
(* enabled only while the poll task is suspended or does not exist.        *)
(* CancelledError is a BaseException (Python 3.8+): no `except Exception`  *)
(* of the module catches it.                                               *)
(*                                                                         *)
(* _update_flight_data_cache is a plain `def` whose dict display holds     *)
(* `await self._detect_flight_phase(self._flight_data_cache)` (line 141).  *)
(* The model takes the expression for the value of the coroutine, which    *)
(* has no suspension point: the classification of the cache as it is       *)
(* while the new dict is being built, that is, of the previous snapshot.   *)
(***************************************************************************)
EXTENDS Integers, Sequences, FiniteSets, TLC

VARIABLES
    session,            \* self.session: "None" or "open"
    poll_task,          \* self._poll_task: "None" or "task"
    listeners,          \* self._listeners
    last_data,          \* self._last_data
    last_milestones,    \* self._last_milestones (the keys mapped to True)
    last_phase,         \* self._last_phase ("None" or a phase string)
    flight_data_cache,  \* self._flight_data_cache
    poll_interval_ok,   \* whether self.poll_interval is a number asyncio.sleep accepts
    pc,                 \* position of the poll task
    cancel_requested,   \* Task.cancel() was called on the poll task
    consecutive_errors, \* local of _poll_loop
    endpoint,           \* index of the endpoint being fetched
    data,               \* local `data` of _poll_loop
    stage,              \* which _notify_listeners call of the cycle is running
    idx,                \* position of the list iterator of _notify_listeners
    event,              \* the event being delivered
    announcements,      \* milestones of the cycle not yet delivered
    stop_pc,            \* position of a stop() call
    emitted,            \* history: events handed to _notify_listeners in this cycle
    calls,              \* history: listener invocations of this cycle
    tried,              \* history: endpoints tried by the running resolver call
    failed_cycles,      \* history: consecutive failed cycles of an outage from the start
    phase_before,       \* history: self._last_phase when the cycle accepted its sample
    fl100_armed,        \* observer: the FL100 milestone is due at the next cycle in its band
    fl100_expected,     \* observer: the FL100 milestone is due in this cycle
    payloads_left,      \* how many non-empty payloads the source will still serve
    stops_left,         \* how many stop() calls are still to come
    listener_ops_left,  \* how many add_listener/remove_listener calls are still to come
    airport_api_key,    \* self.airport_api_key: "None" or "key"
    query,              \* the last call of a query method and what it returned
    heap,               \* the dict objects self._flight_data_cache has been bound to
    held,               \* the events holding a reference to a snapshot object
    milestone_log       \* history: waypoint names seen, flight levels delivered and held

vars == <<session, poll_task, listeners, last_data, last_milestones, last_phase,
          flight_data_cache, poll_interval_ok, pc, cancel_requested,
          consecutive_errors, endpoint, data, stage, idx, event, announcements,
          stop_pc, emitted, calls, tried, failed_cycles, phase_before, fl100_armed,
          fl100_expected, payloads_left, stops_left, listener_ops_left,
          airport_api_key, query, heap, held, milestone_log>>

----------------------------------------------------------------------------
(* Python values *)

EmptyDict == [k \in {} |-> 0]

Get(d, k, default) == IF k \in DOMAIN d THEN d[k] ELSE default

JNum(n) == [t |-> "num", v |-> n]
JNull == [t |-> "null"]
JStr == [t |-> "str"]
JInf == [t |-> "inf"]
JNaN == [t |-> "nan"]

\* A float: [t |-> "num", v |-> n], [t |-> "inf"] or [t |-> "nan"].
IsFinite(f) == f.t = "num"

\* _safe_float: float(value) if value is not None else 0.0; 0.0 on ValueError/TypeError.
SafeFloat(value) ==
    CASE value.t = "num" -> value
      [] value.t = "inf" -> value
      [] value.t = "nan" -> value
      [] OTHER -> JNum(0)

\* The finite part of a float the model's inputs keep finite.
Num(f) == IF f.t = "num" THEN f.v ELSE 0

\* int(x / d): Python's int() truncates toward zero.
TruncDiv(x, d) == IF x >= 0 THEN x \div d ELSE -((-x) \div d)

\* x * 1.943844 (m/s to knots): 0.1 m/s in, 0.001 kt out.
MsToKt(x) == x * 194 + (x * 3844) \div 10000

\* x * 196.85 (m/s to ft/min): 0.1 m/s in, 0.001 ft/min out.
MsToFpm(x) == x * 19685

\* str.lower() on the phase strings the source is drawn to send.
LowerTable == [Cruise |-> "cruise", CLIMB |-> "climb", Parked |-> "parked"]

Lower(s) == IF s \in DOMAIN LowerTable THEN LowerTable[s] ELSE s

----------------------------------------------------------------------------
(* Phase Classifier *)

\* Lines 169-187 with `>` for `>=` in the taxiing rule.
ThresholdRulesStrict(flight_data) ==
    LET altitude_agl == Get(flight_data, "altitude_agl_ft", 0)
        ground_speed == Get(flight_data, "speed_kt", 0)
        vertical_speed == Get(flight_data, "vertical_speed_fpm", 0)
        on_ground == Get(flight_data, "on_ground", FALSE)
        abs_vs == IF vertical_speed < 0 THEN -vertical_speed ELSE vertical_speed
    IN  IF on_ground /\ ground_speed < 5000 THEN "parked"
        ELSE IF on_ground /\ ground_speed > 5000 THEN "taxiing"
        ELSE IF altitude_agl < 50 /\ ground_speed > 40000 THEN "takeoff"
        ELSE IF altitude_agl < 1000 /\ vertical_speed > 300000 THEN "climbing"
        ELSE IF altitude_agl > 3000 /\ abs_vs < 200000 THEN "cruise"
        ELSE IF vertical_speed < -300000 THEN "descending"
        ELSE IF altitude_agl < 300 /\ vertical_speed < 0 THEN "approach"
        ELSE IF on_ground /\ ground_speed > 5000 THEN "landing"
        ELSE "unknown"

\* Lines 169-187 without the taxiing rule of lines 172-173.
ThresholdRulesNoTaxi(flight_data) ==
    LET altitude_agl == Get(flight_data, "altitude_agl_ft", 0)
        ground_speed == Get(flight_data, "speed_kt", 0)
        vertical_speed == Get(flight_data, "vertical_speed_fpm", 0)
        on_ground == Get(flight_data, "on_ground", FALSE)
        abs_vs == IF vertical_speed < 0 THEN -vertical_speed ELSE vertical_speed
    IN  IF on_ground /\ ground_speed < 5000 THEN "parked"
        ELSE IF altitude_agl < 50 /\ ground_speed > 40000 THEN "takeoff"
        ELSE IF altitude_agl < 1000 /\ vertical_speed > 300000 THEN "climbing"
        ELSE IF altitude_agl > 3000 /\ abs_vs < 200000 THEN "cruise"
        ELSE IF vertical_speed < -300000 THEN "descending"
        ELSE IF altitude_agl < 300 /\ vertical_speed < 0 THEN "approach"
        ELSE IF on_ground /\ ground_speed > 5000 THEN "landing"
        ELSE "unknown"

\* Lines 160-163 and 169-187 of _detect_flight_phase: the threshold rules.
ThresholdRules(flight_data) ==
    LET altitude_agl == Get(flight_data, "altitude_agl_ft", 0)
        ground_speed == Get(flight_data, "speed_kt", 0)
        vertical_speed == Get(flight_data, "vertical_speed_fpm", 0)
        on_ground == Get(flight_data, "on_ground", FALSE)
        abs_vs == IF vertical_speed < 0 THEN -vertical_speed ELSE vertical_speed
    IN  IF on_ground /\ ground_speed < 5000 THEN "parked"
        ELSE IF on_ground /\ ground_speed >= 5000 THEN "taxiing"
        ELSE IF altitude_agl < 50 /\ ground_speed > 40000 THEN "takeoff"
        ELSE IF altitude_agl < 1000 /\ vertical_speed > 300000 THEN "climbing"
        ELSE IF altitude_agl > 3000 /\ abs_vs < 200000 THEN "cruise"
        ELSE IF vertical_speed < -300000 THEN "descending"
        ELSE IF altitude_agl < 300 /\ vertical_speed < 0 THEN "approach"
        ELSE IF on_ground /\ ground_speed > 5000 THEN "landing"
        ELSE "unknown"

\* _detect_flight_phase without lines 166-167: the phase of the source is ignored.
DetectFlightPhaseNoApi(flight_data, lastData) == ThresholdRules(flight_data)

\* _detect_flight_phase reading the phase of the sample the snapshot it is given
\* was built from (the sample before the one being normalized).
DetectFlightPhaseStale(flight_data, lastData) ==
    IF "raw_data" \in DOMAIN flight_data /\ "phase" \in DOMAIN flight_data["raw_data"]
    THEN Lower(flight_data["raw_data"]["phase"])
    ELSE ThresholdRules(flight_data)

\* _detect_flight_phase(flight_data), reading self._last_data.
DetectFlightPhase(flight_data, lastData) ==
    IF "phase" \in DOMAIN lastData THEN Lower(lastData["phase"])
    ELSE ThresholdRules(flight_data)

----------------------------------------------------------------------------
(* Flight State Normalizer *)

\* data.get('position', {}).get(...) raises AttributeError when the sample's
\* position is null; the try block of _update_flight_data_cache catches it.
NormalizationRaises(d) ==
    "position" \in DOMAIN d /\ d["position"].t = "null"

Latitude(d) ==
    IF "position" \in DOMAIN d /\ "lat" \in DOMAIN d["position"]
    THEN SafeFloat(d["position"].lat) ELSE JNum(0)

\* The dict display of _update_flight_data_cache with on_ground and phase taken
\* from the metrics of the sample itself instead of the snapshot before it.
NewSnapshotOwnMetrics(d, cache) ==
    LET own == [altitude_agl_ft |-> Num(SafeFloat(Get(d, "altitude_above_ground", JNum(0)))),
                speed_kt |-> MsToKt(Num(SafeFloat(Get(d, "ground_speed", JNum(0))))),
                vertical_speed_fpm |->
                    MsToFpm(Num(SafeFloat(Get(d, "vertical_speed", JNum(0))))),
                on_ground |-> Get(d, "on_ground", FALSE)]
    IN  [altitude_ft |-> SafeFloat(Get(d, "indicated_altitude", JNum(0))),
         altitude_agl_ft |-> own.altitude_agl_ft,
         speed_kt |-> own.speed_kt,
         vertical_speed_fpm |-> own.vertical_speed_fpm,
         latitude |-> Latitude(d),
         on_ground |-> own.on_ground,
         phase |-> DetectFlightPhase(own, d),
         next_waypoint |-> Get(d, "next_wp_name", ""),
         raw_data |-> d]

\* The dict display of _update_flight_data_cache, evaluated with self._last_data
\* already set to the new sample and self._flight_data_cache still the previous
\* snapshot.  Of the fields computed by SafeFloat alone and read by no decision
\* of the engine, altitude_ft and latitude are kept.
NewSnapshot(d, cache) ==
    [altitude_ft |-> SafeFloat(Get(d, "indicated_altitude", JNum(0))),
     altitude_agl_ft |-> Num(SafeFloat(Get(d, "altitude_above_ground", JNum(0)))),
     speed_kt |-> MsToKt(Num(SafeFloat(Get(d, "ground_speed", JNum(0))))),
     vertical_speed_fpm |-> MsToFpm(Num(SafeFloat(Get(d, "vertical_speed", JNum(0))))),
     latitude |-> Latitude(d),
     on_ground |-> (Get(d, "on_ground", FALSE) \/ Get(cache, "altitude_agl_ft", 0) < 5),
     phase |-> DetectFlightPhase(cache, d),
     next_waypoint |-> Get(d, "next_wp_name", ""),
     raw_data |-> d]

\* _update_flight_data_cache: on an exception the cache keeps its old value.
UpdateFlightDataCache(d, cache) ==
    IF NormalizationRaises(d) THEN cache ELSE NewSnapshot(d, cache)

----------------------------------------------------------------------------
(* Milestone Tracker *)

\* f"FL{flight_level}" and f"WP_{waypoint}": a key is its prefix and what follows it.
FLKey(level) == [prefix |-> "FL", level |-> level, name |-> ""]
WPKey(name) == [prefix |-> "WP_", level |-> 0, name |-> name]

FLText(level) == [text |-> "Reached flight level", level |-> level, name |-> ""]
WPText(name) == [text |-> "Approaching waypoint", level |-> 0, name |-> name]

\* int(altitude_ft / 1000) * 10
FlightLevel(altitude_ft) == TruncDiv(altitude_ft, 1000) * 10

\* int(inf / 1000) raises OverflowError, int(nan / 1000) ValueError: the first
\* int() reached raises before the registry is touched.
MilestonesRaise(flight_data) ==
    ~IsFinite(Get(flight_data, "altitude_ft", JNum(0)))

\* Lines 214-220: the flight-level milestone.
FlightLevelStep(altitude_ft, registry) ==
    IF altitude_ft >= 10000 /\ FLKey(FlightLevel(altitude_ft)) \notin registry
    THEN [ann |-> <<FLText(FlightLevel(altitude_ft))>>,
          reg |-> registry \cup {FLKey(FlightLevel(altitude_ft))}]
    ELSE [ann |-> <<>>, reg |-> registry]

\* Lines 223-226 replaced by a step that deletes nothing.
ClearNothing(altitude_ft, registry) == registry

\* Lines 223-226: delete the flight-level keys above the current level.
ClearLowerLevels(altitude_ft, registry) ==
    {key \in registry : ~(key.prefix = "FL" /\ key.level > FlightLevel(altitude_ft))}

\* Lines 229-232 without the registry test of line 230.
WaypointStepAlways(waypoint, r) ==
    IF waypoint # ""
    THEN [ann |-> Append(r.ann, WPText(waypoint)), reg |-> r.reg \cup {WPKey(waypoint)}]
    ELSE r

\* Lines 229-232: the waypoint milestone.
WaypointStep(waypoint, r) ==
    IF waypoint # "" /\ WPKey(waypoint) \notin r.reg
    THEN [ann |-> Append(r.ann, WPText(waypoint)), reg |-> r.reg \cup {WPKey(waypoint)}]
    ELSE r

\* _check_milestones for a finite altitude: the announcements and the new registry.
CheckMilestones(flight_data, registry) ==
    LET altitude_ft == Get(flight_data, "altitude_ft", JNum(0)).v
        fl == FlightLevelStep(altitude_ft, registry)
        cleared == [ann |-> fl.ann, reg |-> ClearLowerLevels(altitude_ft, fl.reg)]
    IN  WaypointStep(Get(flight_data, "next_waypoint", ""), cleared)

----------------------------------------------------------------------------
(* The external source and the callers *)

\* The most non-empty payloads the source serves before it goes away for good.
MaxPayloads == 4

\* The most stop() calls made.
MaxStops == 1

\* The most add_listener and remove_listener calls made.
MaxListenerOps == 2

\* What the source and the callers do in a run: a flight of many samples seen by
\* one listener; a short flight with a changing list of listeners; a source
\* configured with a poll interval asyncio.sleep rejects; restarts.
Scenarios ==
    {[payloads |-> MaxPayloads, listener_ops |-> 1, stops |-> 0, interval_ok |-> TRUE],
     [payloads |-> 2, listener_ops |-> MaxListenerOps, stops |-> 1, interval_ok |-> TRUE],
     [payloads |-> 2, listener_ops |-> 1, stops |-> 1, interval_ok |-> FALSE],
     [payloads |-> 2, listener_ops |-> 1, stops |-> MaxStops + 1, interval_ok |-> TRUE]}

Position(lat) == [t |-> "dict", lat |-> JNum(lat)]

\* Raw samples in the shape of MOCK_FLIGHT_DATA: parked on the ground; climbing
\* through FL100 toward waypoint A; at FL120 with a phase of the source's own;
\* below FL100; a null position (normalization raises); an infinite altitude
\* (milestone detection raises).
RawSamples ==
    <<[indicated_altitude |-> JNum(0), ground_speed |-> JNum(0), on_ground |-> TRUE,
       position |-> Position(40)],
      [indicated_altitude |-> JNum(10500), altitude_above_ground |-> JNum(900),
       ground_speed |-> JNum(1200), vertical_speed |-> JNum(50), next_wp_name |-> "A"],
      [indicated_altitude |-> JNum(12000), altitude_above_ground |-> JNum(11000),
       phase |-> "Cruise", next_wp_name |-> "B"],
      [indicated_altitude |-> JNum(9000), altitude_above_ground |-> JNum(8000),
       vertical_speed |-> JNum(-30), on_ground |-> FALSE],
      [indicated_altitude |-> JNum(10900), position |-> JNull, next_wp_name |-> "A"],
      [indicated_altitude |-> JInf, phase |-> "CLIMB"]>>

Samples == {RawSamples[i] : i \in 1..Len(RawSamples)}

\* Callbacks a caller may register: plain functions and coroutine functions,
\* each either returning or raising an Exception.
Callbacks == {"sync_ok", "sync_raises", "async_ok", "async_raises"}

\* asyncio.iscoroutinefunction(listener)
IsCoroutineFunction(cb) == cb \in {"async_ok", "async_raises"}

Raises(cb) == cb \in {"sync_raises", "async_raises"}

\* endpoints of _fetch_data_with_fallback
Endpoints == <<"/api/aircraft", "/api/v1/flight", "/api/progress", "/api/flightplan">>

\* max_errors of _poll_loop
max_errors == 5

NoEvent == [type |-> "none"]

\* No query method has been called.
NoQuery == [kind |-> "none"]

\* No milestone detection has run.
EmptyLog == [waypoints |-> {}, levels |-> {}]

\* What __init__ leaves in the variables of the query methods and their histories.
FacadeAsConstructed ==
    /\ airport_api_key = "None"
    /\ query = NoQuery
    /\ heap = <<EmptyDict>>
    /\ held = {}
    /\ milestone_log = EmptyLog

\* The positions at which the poll task is suspended in an await or does not run.
Suspended ==
    pc \in {"none", "created", "fetch", "in_listener", "sleep", "sleep5", "sleep30", "done"}

----------------------------------------------------------------------------
(* __init__ *)

Init ==
    /\ session = "None"
    /\ poll_task = "None"
    /\ listeners = <<>>
    /\ last_data = EmptyDict
    /\ last_milestones = {}
    /\ last_phase = "None"
    /\ flight_data_cache = EmptyDict
    /\ \E sc \in Scenarios :
          /\ poll_interval_ok = sc.interval_ok
          /\ payloads_left = sc.payloads
          /\ stops_left = sc.stops
          /\ listener_ops_left = sc.listener_ops
    /\ pc = "none"
    /\ cancel_requested = FALSE
    /\ consecutive_errors = 0
    /\ endpoint = 1
    /\ data = EmptyDict
    /\ stage = "none"
    /\ idx = 1
    /\ event = NoEvent
    /\ announcements = <<>>
    /\ stop_pc = "idle"
    /\ emitted = <<>>
    /\ calls = <<>>
    /\ tried = <<>>
    /\ failed_cycles = 0
    /\ phase_before = "None"
    /\ fl100_armed = TRUE
    /\ fl100_expected = FALSE
    /\ FacadeAsConstructed

----------------------------------------------------------------------------
(* _poll_loop *)

engine == <<last_data, last_milestones, last_phase, flight_data_cache>>
locals == <<consecutive_errors, endpoint, data>>
delivery == <<stage, idx, event, announcements>>
history == <<emitted, calls, tried, failed_cycles>>
observers == <<phase_before, fl100_armed, fl100_expected>>
facade == <<airport_api_key, query, heap, held, milestone_log>>
callers == <<session, poll_task, listeners, stop_pc, cancel_requested, poll_interval_ok,
             stops_left, listener_ops_left>>

\* Top of the `while True` body: _fetch_data_with_fallback starts with the first
\* endpoint.  With no session every _fetch_from_endpoint raises RuntimeError
\* before it awaits, and the resolver returns {} without suspending.
BeginCycle ==
    /\ endpoint' = IF session = "None" THEN Len(Endpoints) ELSE 1
    /\ tried' = SubSeq(Endpoints, 1, endpoint')
    /\ failed_cycles' = failed_cycles
    /\ data' = EmptyDict
    /\ stage' = "none"
    /\ idx' = 1
    /\ event' = NoEvent
    /\ announcements' = <<>>
    /\ emitted' = <<>>
    /\ calls' = <<>>
    /\ phase_before' = "None"
    /\ fl100_armed' = fl100_armed
    /\ fl100_expected' = FALSE
    /\ pc' = IF session = "None" THEN "got_data" ELSE "fetch"

\* The first step of the task created by start(): consecutive_errors = 0.
TaskBegin ==
    /\ pc = "created"
    /\ ~cancel_requested
    /\ consecutive_errors' = 0
    /\ BeginCycle
    /\ UNCHANGED <<engine, callers, payloads_left>>
    /\ UNCHANGED facade

\* The resolver returning {} at the first endpoint that fails.
GiveUpAfterFailedFetch(ep) == [pc |-> "got_data", endpoint |-> ep]

\* Lines 100-110 after endpoint number ep has failed or answered nothing: the
\* next endpoint is fetched, or {} is returned after the last.  With no session
\* the remaining endpoints raise RuntimeError at line 117 without suspending.
AfterFailedFetch(ep) ==
    IF ep = Len(Endpoints) THEN [pc |-> "got_data", endpoint |-> ep]
    ELSE IF session = "None" THEN [pc |-> "got_data", endpoint |-> Len(Endpoints)]
    ELSE [pc |-> "fetch", endpoint |-> ep + 1]

\* Line 102 raises (network error, non-2xx status, malformed body) or returns an
\* empty payload: the resolver goes on to the next endpoint, or returns {}.
FetchFails ==
    /\ pc = "fetch"
    /\ ~cancel_requested
    /\ pc' = AfterFailedFetch(endpoint).pc
    /\ endpoint' = AfterFailedFetch(endpoint).endpoint
    /\ tried' = SubSeq(Endpoints, 1, endpoint')
    /\ data' = EmptyDict
    /\ UNCHANGED <<engine, callers, consecutive_errors, delivery, emitted, calls,
                   failed_cycles, payloads_left>>
    /\ UNCHANGED observers
    /\ UNCHANGED facade

\* Line 102 returns a non-empty payload: the resolver returns it at once.
FetchData ==
    /\ pc = "fetch"
    /\ ~cancel_requested
    /\ session = "open"
    /\ stop_pc # "closing"
    /\ payloads_left > 0
    /\ payloads_left' = payloads_left - 1
    /\ \E d \in Samples : data' = d
    /\ pc' = "got_data"
    /\ UNCHANGED <<engine, callers, consecutive_errors, endpoint, delivery, history>>
    /\ UNCHANGED observers
    /\ UNCHANGED facade

\* await asyncio.sleep(self.poll_interval), line 76: suspends, or raises
\* inside the try when poll_interval is not a delay asyncio.sleep accepts.
SleepPollInterval == IF poll_interval_ok THEN "sleep" ELSE "except"

\* The raw update, and the events of _notify_phase_change and _notify_milestone.
RawEvent(d) == [type |-> "raw", data |-> d]
PhaseEvent(old, new, cache) ==
    [type |-> "phase_change", old_phase |-> old, new_phase |-> new, flight_data |-> cache]
MilestoneEvent(m, cache) == [type |-> "milestone", milestone |-> m, flight_data |-> cache]

\* _notify_listeners(ev) going on from where the iteration before it ended.
StartNotifyResumes(st, ev) ==
    /\ stage' = st
    /\ event' = ev
    /\ idx' = idx
    /\ emitted' = Append(emitted, ev)
    /\ pc' = "notify"

\* A call of _notify_listeners(ev): the iteration over self._listeners starts.
StartNotify(st, ev) ==
    /\ stage' = st
    /\ event' = ev
    /\ idx' = 1
    /\ emitted' = Append(emitted, ev)
    /\ pc' = "notify"

\* _fetch_data_with_fallback has returned `data` to line 65: its locals are gone.
\* The history counts the cycles in which the resolver returned {} for as long as
\* the source has never answered (an outage from the start), up to max_errors.
LeaveResolver ==
    /\ endpoint' = 1
    /\ tried' = <<>>
    /\ failed_cycles' = IF data # EmptyDict THEN 0
                        ELSE IF last_data = EmptyDict /\ failed_cycles < max_errors
                        THEN failed_cycles + 1
                        ELSE failed_cycles

\* Line 67, true branch: lines 68-70 up to the first listener.
AcceptSample ==
    /\ pc = "got_data"
    /\ data # EmptyDict /\ data # last_data
    /\ last_data' = data
    /\ flight_data_cache' = UpdateFlightDataCache(data, flight_data_cache)
    /\ StartNotify("raw", RawEvent(data))
    /\ LeaveResolver
    /\ phase_before' = last_phase
    /\ UNCHANGED <<fl100_armed, fl100_expected>>
    /\ UNCHANGED <<last_milestones, last_phase, callers, consecutive_errors, data,
                   announcements, calls, payloads_left>>
    /\ UNCHANGED facade

\* Line 67 false with a sample equal to the last one: straight to line 76.
SkipSameSample ==
    /\ pc = "got_data"
    /\ data # EmptyDict /\ data = last_data
    /\ pc' = SleepPollInterval
    /\ LeaveResolver
    /\ UNCHANGED <<engine, callers, consecutive_errors, data, delivery, emitted, calls,
                   payloads_left>>
    /\ UNCHANGED observers
    /\ UNCHANGED facade

\* Lines 73-74 replaced by a raise: the missing sample is an error of the cycle.
NoDataRaises ==
    /\ pc = "got_data"
    /\ data = EmptyDict
    /\ pc' = "except"
    /\ LeaveResolver
    /\ UNCHANGED <<engine, callers, consecutive_errors, data, delivery, emitted, calls,
                   payloads_left>>
    /\ UNCHANGED observers
    /\ UNCHANGED facade

\* Lines 73-74: no data, then line 76.
NoData ==
    /\ pc = "got_data"
    /\ data = EmptyDict
    /\ pc' = SleepPollInterval
    /\ LeaveResolver
    /\ UNCHANGED <<engine, callers, consecutive_errors, data, delivery, emitted, calls,
                   payloads_left>>
    /\ UNCHANGED observers
    /\ UNCHANGED facade

\* Line 72 and line 76, after _check_milestones_and_phases has returned.
FinishAccepted ==
    /\ pc = "checked"
    /\ consecutive_errors' = 0
    /\ stage' = "none"
    /\ event' = NoEvent
    /\ idx' = 1
    /\ announcements' = <<>>
    /\ emitted' = <<>>
    /\ calls' = <<>>
    /\ phase_before' = "None"
    /\ fl100_armed' = fl100_armed
    /\ fl100_expected' = FALSE
    /\ pc' = SleepPollInterval
    /\ UNCHANGED <<engine, callers, endpoint, data, tried, failed_cycles, payloads_left>>
    /\ UNCHANGED facade

----------------------------------------------------------------------------
(* _notify_listeners *)

\* The try/except of lines 239-245 taken away: the exception of a listener
\* leaves _notify_listeners and reaches the handler of _poll_loop.
AfterListenerUncaught(cb) ==
    IF Raises(cb) THEN [pc |-> "except", idx |-> idx]
    ELSE [pc |-> "notify", idx |-> idx + 1]

\* What the loop of _notify_listeners does once listener cb has returned or
\* raised: the try/except of lines 239-245 logs an Exception and goes on.
AfterListener(cb) == [pc |-> "notify", idx |-> idx + 1]

\* Lines 238-243 for the next listener of the list: a plain function runs to its
\* end; a coroutine function is awaited and may suspend.
NotifyCall ==
    /\ pc = "notify"
    /\ idx <= Len(listeners)
    /\ calls' = Append(calls, [listener |-> listeners[idx], event |-> Len(emitted),
                               registered |-> listeners])
    /\ IF IsCoroutineFunction(listeners[idx])
       THEN /\ pc' = "in_listener"
            /\ idx' = idx
       ELSE /\ pc' = AfterListener(listeners[idx]).pc
            /\ idx' = AfterListener(listeners[idx]).idx
    /\ UNCHANGED <<engine, callers, locals, stage, event, announcements, emitted,
                   tried, failed_cycles, payloads_left>>
    /\ UNCHANGED observers
    /\ UNCHANGED facade

\* The awaited listener finishes, by returning or by raising an Exception.
ListenerDone ==
    /\ pc = "in_listener"
    /\ ~cancel_requested
    /\ pc' = AfterListener(calls[Len(calls)].listener).pc
    /\ idx' = AfterListener(calls[Len(calls)].listener).idx
    /\ UNCHANGED <<engine, callers, locals, stage, event, announcements, history,
                   payloads_left>>
    /\ UNCHANGED observers
    /\ UNCHANGED facade

----------------------------------------------------------------------------
(* _check_milestones_and_phases *)

\* The FL100 milestone as the specification tells it: due in a cycle whose
\* altitude is in [10000, 11000) when it is armed; armed at the start and again
\* by every cycle below 10,000 ft; disarmed by the cycle that delivers it.
FL100Due(armed, altitude_ft) == armed /\ altitude_ft >= 10000 /\ altitude_ft < 11000

FL100ArmedAfter(armed, altitude_ft) ==
    IF altitude_ft < 10000 THEN TRUE
    ELSE IF altitude_ft < 11000 THEN FALSE
    ELSE armed

\* Lines 201-203 and the except of line 205: detect the milestones and start
\* delivering the first, or return when there is none or detection raised.
DetectAndAnnounce ==
    IF MilestonesRaise(flight_data_cache)
    THEN /\ last_milestones' = last_milestones
         /\ pc' = "checked"
         /\ UNCHANGED <<delivery, emitted, fl100_armed, fl100_expected>>
    ELSE LET r == CheckMilestones(flight_data_cache, last_milestones)
             altitude_ft == Get(flight_data_cache, "altitude_ft", JNum(0)).v
         IN  /\ last_milestones' = r.reg
             /\ fl100_armed' = FL100ArmedAfter(fl100_armed, altitude_ft)
             /\ fl100_expected' = FL100Due(fl100_armed, altitude_ft)
             /\ IF r.ann = <<>>
                THEN /\ pc' = "checked"
                     /\ UNCHANGED <<delivery, emitted>>
                ELSE /\ StartNotify("milestone",
                                    MilestoneEvent(Head(r.ann), flight_data_cache))
                     /\ announcements' = Tail(r.ann)

\* The phase comparison of line 195 replaced by one that always reports a change.
PhaseChangedAlways(current_phase, lastPhase) == TRUE

\* Line 195.
PhaseChanged(current_phase, lastPhase) == current_phase # lastPhase

\* _notify_listeners(data) has returned (line 70); lines 192-197.
RawDelivered ==
    /\ pc = "notify"
    /\ stage = "raw"
    /\ idx > Len(listeners)
    /\ LET current_phase == Get(flight_data_cache, "phase", "unknown")
       IN  IF PhaseChanged(current_phase, last_phase)
           THEN /\ StartNotify("phase",
                               PhaseEvent(last_phase, current_phase, flight_data_cache))
                /\ UNCHANGED <<last_milestones, announcements, fl100_armed,
                               fl100_expected>>
           ELSE DetectAndAnnounce
    /\ UNCHANGED <<last_data, last_phase, flight_data_cache, callers, locals, calls,
                   tried, failed_cycles, phase_before, payloads_left>>
    /\ UNCHANGED facade

\* _notify_phase_change has returned: line 198, then the milestones.
PhaseDelivered ==
    /\ pc = "notify"
    /\ stage = "phase"
    /\ idx > Len(listeners)
    /\ last_phase' = event.new_phase
    /\ DetectAndAnnounce
    /\ UNCHANGED <<last_data, flight_data_cache, callers, locals, calls, tried,
                   failed_cycles, phase_before, payloads_left>>
    /\ UNCHANGED facade

\* _notify_milestone has returned: the next announcement of line 202, or the end.
MilestoneDelivered ==
    /\ pc = "notify"
    /\ stage = "milestone"
    /\ idx > Len(listeners)
    /\ IF announcements # <<>>
       THEN /\ StartNotify("milestone",
                           MilestoneEvent(Head(announcements), flight_data_cache))
            /\ announcements' = Tail(announcements)
       ELSE /\ pc' = "checked"
            /\ UNCHANGED <<delivery, emitted>>
    /\ UNCHANGED <<engine, callers, locals, calls, tried, failed_cycles, observers,
                   payloads_left>>
    /\ UNCHANGED facade

----------------------------------------------------------------------------
(* _poll_loop: sleeping, the error handler, cancellation *)

\* asyncio.sleep(self.poll_interval) returns: the next iteration.
Wake ==
    /\ pc = "sleep"
    /\ ~cancel_requested
    /\ BeginCycle
    /\ UNCHANGED <<engine, callers, consecutive_errors, payloads_left>>
    /\ UNCHANGED facade

\* The handler with the comparison of line 84 turned into `>`.
HandlerSleepLate(n) == IF n > max_errors THEN "sleep30" ELSE "sleep5"

\* The handler giving up at the threshold instead of backing off.
HandlerGivesUp(n) == IF n >= max_errors THEN "done" ELSE "sleep5"

\* Lines 84-89: which sleep the handler takes with n errors counted.
HandlerSleep(n) == IF n >= max_errors THEN "sleep30" ELSE "sleep5"

\* Lines 81-89 up to the sleep.
ErrorHandler ==
    /\ pc = "except"
    /\ consecutive_errors' = consecutive_errors + 1
    /\ pc' = HandlerSleep(consecutive_errors')
    /\ UNCHANGED <<engine, callers, endpoint, data, delivery, history, payloads_left>>
    /\ UNCHANGED observers
    /\ UNCHANGED facade

\* Line 89 returns.
WakeRetry ==
    /\ pc = "sleep5"
    /\ ~cancel_requested
    /\ BeginCycle
    /\ UNCHANGED <<engine, callers, consecutive_errors, payloads_left>>
    /\ UNCHANGED facade

\* Line 86 returns, line 87.
WakeBackoff ==
    /\ pc = "sleep30"
    /\ ~cancel_requested
    /\ consecutive_errors' = 0
    /\ BeginCycle
    /\ UNCHANGED <<engine, callers, payloads_left>>
    /\ UNCHANGED facade

\* Task.cancel() throws CancelledError into the await the task is suspended in
\* (or ends a task that never ran).  Line 78 breaks out of the loop; from the
\* sleeps of the handler the error leaves _poll_loop.  Either way the task ends.
Cancelled ==
    /\ pc \in {"created", "fetch", "in_listener", "sleep", "sleep5", "sleep30"}
    /\ cancel_requested
    /\ pc' = "done"
    /\ UNCHANGED <<engine, callers, locals, delivery, history, payloads_left>>
    /\ UNCHANGED observers
    /\ UNCHANGED facade

----------------------------------------------------------------------------
(* start, stop, add_listener, remove_listener *)

poll == <<pc, locals, delivery, history, payloads_left>>

\* start() without the test of line 37: a task is created at every call.
StartAlways ==
    /\ Suspended
    /\ session' = "open"
    /\ poll_task' = "task"
    /\ pc' = "created"
    /\ cancel_requested' = FALSE
    /\ UNCHANGED <<engine, listeners, stop_pc, poll_interval_ok, stops_left, listener_ops_left,
                   locals, delivery, history, payloads_left>>
    /\ UNCHANGED observers
    /\ UNCHANGED facade

\* start(): no await, so it runs in one piece.
Start ==
    /\ Suspended
    /\ session' = "open"
    /\ IF poll_task = "None"
       THEN /\ poll_task' = "task"
            /\ pc' = "created"
            /\ cancel_requested' = FALSE
       ELSE UNCHANGED <<poll_task, pc, cancel_requested>>
    /\ UNCHANGED <<engine, listeners, stop_pc, poll_interval_ok, stops_left, listener_ops_left,
                   locals, delivery, history, payloads_left>>
    /\ UNCHANGED observers
    /\ UNCHANGED facade

\* stop() without lines 45-49: the task is forgotten, neither cancelled nor awaited.
StopWithoutCancel ==
    /\ Suspended
    /\ stop_pc = "idle"
    /\ stops_left > 0
    /\ stops_left' = stops_left - 1
    /\ poll_task' = "None"
    /\ stop_pc' = IF session # "None" THEN "closing" ELSE "idle"
    /\ UNCHANGED <<engine, session, listeners, poll_interval_ok, cancel_requested,
                   listener_ops_left, poll>>
    /\ UNCHANGED observers
    /\ UNCHANGED facade

\* stop() up to its first await: lines 44-47, or lines 52-53 when there is no task.
StopBegin ==
    /\ Suspended
    /\ stop_pc = "idle"
    /\ stops_left > 0
    /\ stops_left' = stops_left - 1
    /\ IF poll_task # "None"
       THEN /\ cancel_requested' = TRUE
            /\ stop_pc' = "joining"
       ELSE /\ cancel_requested' = cancel_requested
            /\ stop_pc' = IF session # "None" THEN "closing" ELSE "idle"
    /\ UNCHANGED <<engine, session, poll_task, listeners, poll_interval_ok,
                   listener_ops_left, poll>>
    /\ UNCHANGED observers
    /\ UNCHANGED facade

\* Lines 48-53 with the engine brought back to its constructed state.
StopJoinedResets ==
    /\ stop_pc = "joining"
    /\ pc = "done"
    /\ poll_task' = "None"
    /\ pc' = "none"
    /\ stop_pc' = IF session # "None" THEN "closing" ELSE "idle"
    /\ last_data' = EmptyDict
    /\ flight_data_cache' = EmptyDict
    /\ last_phase' = "None"
    /\ last_milestones' = {}
    /\ UNCHANGED <<session, listeners, poll_interval_ok, cancel_requested,
                   stops_left, listener_ops_left, locals, delivery, history, payloads_left>>
    /\ UNCHANGED observers
    /\ UNCHANGED facade

\* The awaited task has ended: lines 48-53.
StopJoined ==
    /\ stop_pc = "joining"
    /\ pc = "done"
    /\ poll_task' = "None"
    /\ pc' = "none"
    /\ stop_pc' = IF session # "None" THEN "closing" ELSE "idle"
    /\ UNCHANGED <<engine, session, listeners, poll_interval_ok, cancel_requested,
                   stops_left, listener_ops_left, locals, delivery, history, payloads_left>>
    /\ UNCHANGED observers
    /\ UNCHANGED facade

\* session.close() has returned: lines 54-55.
StopClosed ==
    /\ Suspended
    /\ stop_pc = "closing"
    /\ session' = "None"
    /\ stop_pc' = "idle"
    /\ UNCHANGED <<engine, poll_task, listeners, poll_interval_ok, cancel_requested,
                   stops_left, listener_ops_left, poll>>
    /\ UNCHANGED observers
    /\ UNCHANGED facade

AddListener(cb) ==
    /\ Suspended
    /\ listener_ops_left > 0
    /\ listener_ops_left' = listener_ops_left - 1
    /\ listeners' = Append(listeners, cb)
    /\ UNCHANGED <<engine, session, poll_task, stop_pc, cancel_requested,
                   poll_interval_ok, stops_left, poll>>
    /\ UNCHANGED observers
    /\ UNCHANGED facade

\* Every occurrence of x removed, instead of the first.
RemoveAll(s, x) == SelectSeq(s, LAMBDA y : y # x)

\* list.remove(x): the first occurrence.
RemoveFirst(s, x) ==
    LET i == CHOOSE j \in 1..Len(s) : s[j] = x /\ \A k \in 1..(j - 1) : s[k] # x
    IN  SubSeq(s, 1, i - 1) \o SubSeq(s, i + 1, Len(s))

\* remove_listener: `if callback in self._listeners` guards the remove.
RemoveListener(cb) ==
    /\ Suspended
    /\ listener_ops_left > 0
    /\ listener_ops_left' = listener_ops_left - 1
    /\ listeners' = IF \E j \in 1..Len(listeners) : listeners[j] = cb
                    THEN RemoveFirst(listeners, cb) ELSE listeners
    /\ UNCHANGED <<engine, session, poll_task, stop_pc, cancel_requested,
                   poll_interval_ok, stops_left, poll>>
    /\ UNCHANGED observers
    /\ UNCHANGED facade

----------------------------------------------------------------------------

Next ==
    \/ TaskBegin
    \/ FetchFails
    \/ FetchData
    \/ AcceptSample
    \/ SkipSameSample
    \/ NoData
    \/ FinishAccepted
    \/ NotifyCall
    \/ ListenerDone
    \/ RawDelivered
    \/ PhaseDelivered
    \/ MilestoneDelivered
    \/ Wake
    \/ ErrorHandler
    \/ WakeRetry
    \/ WakeBackoff
    \/ Cancelled
    \/ Start
    \/ StopBegin
    \/ StopJoined
    \/ StopClosed
    \/ \E cb \in Callbacks : AddListener(cb)
    \/ \E cb \in Callbacks : RemoveListener(cb)

Spec == Init /\ [][Next]_vars

----------------------------------------------------------------------------
(* Phase-change events *)

\* The positions in `emitted` of the phase_change events of the running cycle.
PhaseEvents == {i \in 1..Len(emitted) : emitted[i].type = "phase_change"}

\* C1: a cycle that accepted a new sample and has run _check_milestones_and_phases
\* to its end has delivered exactly one phase_change event, carrying the phase
\* recorded before the cycle as old_phase and the snapshot's phase as new_phase,
\* when the two differ, and none when they are equal; _last_phase is then the
\* snapshot's phase.  No cycle ever delivers two.
C1_PhaseChangeOncePerTransition ==
    /\ Cardinality(PhaseEvents) <= 1
    /\ pc = "checked" =>
          LET new_phase == Get(flight_data_cache, "phase", "unknown")
          IN  /\ last_phase = new_phase
              /\ IF new_phase # phase_before
                 THEN \E i \in 1..Len(emitted) :
                         /\ PhaseEvents = {i}
                         /\ emitted[i].old_phase = phase_before
                         /\ emitted[i].new_phase = new_phase
                 ELSE PhaseEvents = {}

\* A cycle that took the aircraft from one recorded phase to another is complete.
C1_Witness ==
    /\ pc = "checked"
    /\ phase_before # "None"
    /\ PhaseEvents # {}

----------------------------------------------------------------------------
(* The FL100 milestone *)

\* The positions in `emitted` of the FL100 milestone events of the running cycle.
FL100Events ==
    {i \in 1..Len(emitted) :
        emitted[i].type = "milestone" /\ emitted[i].milestone = FLText(100)}

WaypointEvents(name) ==
    {i \in 1..Len(emitted) :
        emitted[i].type = "milestone" /\ emitted[i].milestone = WPText(name)}

\* C2: from an empty registry, the FL100 milestone is delivered, once, in exactly
\* the cycles in which it is due: the first cycle with altitude_ft in
\* [10000, 11000), and again the first such cycle after every cycle below
\* 10,000 ft; it is not delivered while the altitude stays at or above 10,000 ft.
\* Between cycles the key FL100 is in the registry exactly when the milestone is
\* not armed.
C2_FL100OncePerClimb ==
    /\ Cardinality(FL100Events) = (IF fl100_expected THEN 1 ELSE 0)
    /\ pc \in {"checked", "sleep", "fetch", "got_data"} =>
          (fl100_armed <=> FLKey(100) \notin last_milestones)

\* FL100 is delivered in a cycle whose waypoint A was announced by an earlier
\* cycle in the band: the aircraft went below 10,000 ft and climbed back.
C2_Witness ==
    /\ pc = "checked"
    /\ FL100Events # {}
    /\ Get(flight_data_cache, "next_waypoint", "") = "A"
    /\ WaypointEvents("A") = {}

----------------------------------------------------------------------------
(* Listener exceptions *)

\* The listener invocations made for the event being delivered.
CallsForEvent == {i \in 1..Len(calls) : calls[i].event = Len(emitted)}

\* The poll task takes the step in which a listener raises.
ListenerRaises ==
    \/ /\ pc = "notify"
       /\ idx <= Len(listeners)
       /\ ~IsCoroutineFunction(listeners[idx])
       /\ Raises(listeners[idx])
    \/ /\ pc = "in_listener"
       /\ pc' # "in_listener"
       /\ ~cancel_requested
       /\ Raises(calls[Len(calls)].listener)

\* C3: while an event is delivered every listener before the iterator's position
\* has been invoked with it, whatever the earlier ones did; the step in which a
\* listener raises moves the iterator to the next listener inside
\* _notify_listeners, and leaves consecutive_errors, _last_data, the snapshot,
\* _last_phase and the milestone registry as they were.
C3_ListenerExceptionIsolated ==
    /\ [](pc = "notify" => Cardinality(CallsForEvent) = idx - 1)
    /\ [](pc = "in_listener" => Cardinality(CallsForEvent) = idx)
    /\ [][ListenerRaises =>
            /\ pc' = "notify"
            /\ idx' = idx + 1
            /\ UNCHANGED <<engine, consecutive_errors, stage, event>>]_vars

\* A listener that raises was followed by another listener called with the same event.
C3_Witness ==
    \E i, j \in 1..Len(calls) :
        /\ i < j
        /\ Raises(calls[i].listener)
        /\ calls[i].event = calls[j].event

----------------------------------------------------------------------------
(* Endpoint fallback *)

\* C4: the endpoints tried by a resolver call are a prefix of the list, in its
\* order; while a fetch is pending the prefix ends at the endpoint being fetched;
\* a payload is returned from the last endpoint tried (none after it is
\* contacted); {} is returned only when all four have been tried; and the
\* resolver raises nothing into _poll_loop.
C4_FallbackOrder ==
    /\ [](tried = SubSeq(Endpoints, 1, Len(tried)))
    /\ [](pc = "fetch" => Len(tried) = endpoint)
    /\ [](pc = "got_data" /\ data # EmptyDict => Len(tried) = endpoint)
    /\ [](pc = "got_data" /\ data = EmptyDict => tried = Endpoints)
    /\ [][pc = "fetch" => pc' \in {"fetch", "got_data", "done"}]_vars

\* The third endpoint served the payload after the first two failed.
C4_Witness ==
    /\ pc = "got_data"
    /\ data # EmptyDict
    /\ tried = SubSeq(Endpoints, 1, 3)

----------------------------------------------------------------------------
(* Failed fetches, the error handler, cycles without a new sample *)

\* C5: the fifth of five consecutive cycles in which every endpoint failed ends
\* in the error handler with the count about to reach max_errors, so that the
\* loop takes the 30-second sleep.
C5_FiveFailuresBackoff ==
    [][(pc = "got_data" /\ failed_cycles = max_errors - 1 /\ failed_cycles' = max_errors)
          => (pc' = "except" /\ consecutive_errors' = max_errors - 1)]_vars

\* A step of the poll task that leaves the sleep it was suspended in.
LeavesSleep(p) == pc = p /\ pc' # p

\* C6: the handler adds one to consecutive_errors and then sleeps 5 s when the
\* new count is below max_errors, 30 s when it is max_errors; the count is kept
\* over the 5 s sleep and is 0 after the 30 s sleep; after either sleep the loop
\* starts another cycle, unless stop() cancelled the task.
C6_ErrorHandler ==
    /\ [](consecutive_errors \in 0..max_errors)
    /\ [](pc = "sleep5" => consecutive_errors \in 1..(max_errors - 1))
    /\ [](pc = "sleep30" => consecutive_errors = max_errors)
    /\ [][pc = "except" =>
            /\ consecutive_errors' = consecutive_errors + 1
            /\ pc' = IF consecutive_errors' < max_errors THEN "sleep5" ELSE "sleep30"]_vars
    /\ [][LeavesSleep("sleep5") =>
            \/ pc' \in {"fetch", "got_data"} /\ consecutive_errors' = consecutive_errors
            \/ pc' = "done" /\ cancel_requested]_vars
    /\ [][LeavesSleep("sleep30") =>
            \/ pc' \in {"fetch", "got_data"} /\ consecutive_errors' = 0
            \/ pc' = "done" /\ cancel_requested]_vars

\* The cycle after the 30 s sleep that followed five errors in a row.
C6_Witness ==
    /\ ~poll_interval_ok
    /\ pc = "fetch"
    /\ failed_cycles = max_errors
    /\ consecutive_errors = 0

\* C7: the step of a cycle whose sample is non-empty and equal to _last_data
\* invokes no listener, leaves _last_data, the snapshot, _last_phase and the
\* registry alone, and sets consecutive_errors to 0.
C7_SameSampleResetsCounter ==
    [][(pc = "got_data" /\ data # EmptyDict /\ data = last_data) =>
          /\ UNCHANGED engine
          /\ calls' = calls
          /\ emitted' = emitted
          /\ consecutive_errors' = 0]_vars

\* C8 as stated: the step of a cycle whose resolver returned {} counts no error,
\* invokes no listener, leaves the engine's state alone and goes to the sleep of
\* the normal poll interval.
C8_NoSampleNormalInterval ==
    [][(pc = "got_data" /\ data = EmptyDict) =>
          /\ UNCHANGED <<engine, consecutive_errors>>
          /\ calls' = calls
          /\ emitted' = emitted
          /\ pc' = "sleep"]_vars

\* C8 amended: the cycle whose resolver returned {} counts no error for the
\* missing sample, invokes no listener and leaves the engine's state alone; it
\* goes to the sleep of the normal poll interval, from which the next cycle
\* starts with the count unchanged, when asyncio.sleep accepts poll_interval,
\* and to the error handler when asyncio.sleep(poll_interval) raises.
C8_NoSampleCycle ==
    /\ [][(pc = "got_data" /\ data = EmptyDict) =>
            /\ UNCHANGED <<engine, consecutive_errors>>
            /\ calls' = calls
            /\ emitted' = emitted
            /\ pc' = IF poll_interval_ok THEN "sleep" ELSE "except"]_vars
    /\ [][pc = "fetch" => UNCHANGED <<engine, consecutive_errors, calls, emitted>>]_vars
    /\ [][LeavesSleep("sleep") =>
            \/ pc' \in {"fetch", "got_data"} /\ consecutive_errors' = consecutive_errors
            \/ pc' = "done" /\ cancel_requested]_vars

\* The engine sleeps the normal interval after a cycle without a sample, with a
\* sample accepted earlier and a listener registered.
C8_Witness ==
    /\ pc = "sleep"
    /\ data = EmptyDict
    /\ last_data # EmptyDict
    /\ listeners # <<>>

----------------------------------------------------------------------------
(* Liveness of the poll loop *)

\* The steps of the poll task.
PollStep ==
    \/ TaskBegin
    \/ FetchFails
    \/ FetchData
    \/ AcceptSample
    \/ SkipSameSample
    \/ NoData
    \/ FinishAccepted
    \/ NotifyCall
    \/ ListenerDone
    \/ RawDelivered
    \/ PhaseDelivered
    \/ MilestoneDelivered
    \/ Wake
    \/ ErrorHandler
    \/ WakeRetry
    \/ WakeBackoff
    \/ Cancelled

\* A short flight and an outage under a poll interval asyncio.sleep rejects.
FairScenarios ==
    {[payloads |-> 2, listener_ops |-> 1, stops |-> 1, interval_ok |-> TRUE],
     [payloads |-> 1, listener_ops |-> 1, stops |-> 1, interval_ok |-> FALSE]}

FairInit ==
    /\ session = "None"
    /\ poll_task = "None"
    /\ listeners = <<>>
    /\ last_data = EmptyDict
    /\ last_milestones = {}
    /\ last_phase = "None"
    /\ flight_data_cache = EmptyDict
    /\ \E sc \in FairScenarios :
          /\ poll_interval_ok = sc.interval_ok
          /\ payloads_left = sc.payloads
          /\ stops_left = sc.stops
          /\ listener_ops_left = sc.listener_ops
    /\ pc = "none"
    /\ cancel_requested = FALSE
    /\ consecutive_errors = 0
    /\ endpoint = 1
    /\ data = EmptyDict
    /\ stage = "none"
    /\ idx = 1
    /\ event = NoEvent
    /\ announcements = <<>>
    /\ stop_pc = "idle"
    /\ emitted = <<>>
    /\ calls = <<>>
    /\ tried = <<>>
    /\ failed_cycles = 0
    /\ phase_before = "None"
    /\ fl100_armed = TRUE
    /\ fl100_expected = FALSE
    /\ FacadeAsConstructed

\* The event loop runs the poll task whenever it can take a step: every fetch
\* answers or times out, every awaited listener finishes, every sleep ends.
FairSpec == FairInit /\ [][Next]_vars /\ WF_vars(PollStep)

\* The poll task exists, has not ended, and is between two resolver calls.
BetweenFetches == poll_task = "task" /\ pc # "done" /\ tried = <<>>

----------------------------------------------------------------------------
(* stop() *)

\* stop() has returned and start() has not been called since.
Stopped == poll_task = "None" /\ stop_pc = "idle"

\* C10: once stop() has returned, wherever in its cycle the poll task was, the
\* task is gone, and until start() is called no listener is invoked and no event
\* is handed to _notify_listeners.
C10_NoDeliveryAfterStop ==
    /\ [](Stopped => pc = "none")
    /\ [][Stopped => calls' = calls /\ emitted' = emitted]_vars

\* stop() returned after cancelling the task in the middle of a delivery: a
\* listener was awaited and the iteration never went on.
C10_Witness ==
    /\ Stopped
    /\ stops_left = 0
    /\ stage # "none"
    /\ idx <= Len(listeners)
    /\ calls # <<>>

----------------------------------------------------------------------------
(* Cancellation in the middle of a cycle *)

\* _last_phase is the phase of the snapshot.
PhaseRecorded == last_phase = Get(flight_data_cache, "phase", "unknown")

\* The registry holds what milestone detection records for the snapshot.
MilestonesRecorded ==
    \/ MilestonesRaise(flight_data_cache)
    \/ CheckMilestones(flight_data_cache, last_milestones).reg = last_milestones

\* C11: when stop() has returned after cancelling the task inside the delivery
\* of a cycle that had accepted a sample (_last_data and the snapshot are the
\* sample's), _last_phase and the milestone registry reflect that sample too.
C11_AllOrNothing ==
    (Stopped /\ stage # "none") => (PhaseRecorded /\ MilestonesRecorded)

----------------------------------------------------------------------------
(* A listener that never returns *)

\* The steps of the poll task other than the return of an awaited listener.
PollStepButListener ==
    \/ TaskBegin
    \/ FetchFails
    \/ FetchData
    \/ AcceptSample
    \/ SkipSameSample
    \/ NoData
    \/ FinishAccepted
    \/ NotifyCall
    \/ RawDelivered
    \/ PhaseDelivered
    \/ MilestoneDelivered
    \/ Wake
    \/ ErrorHandler
    \/ WakeRetry
    \/ WakeBackoff
    \/ Cancelled

\* The event loop runs the poll task whenever it can take a step, and every
\* fetch and sleep ends; an awaited listener may return or never return.
SlowListenerSpec == FairInit /\ [][Next]_vars /\ WF_vars(PollStepButListener)

\* C12: while the poll task awaits a listener, it eventually starts the next
\* fetch, unless stop() cancels it.
C12_SlowListenerDoesNotBlock ==
    (pc = "in_listener") ~> (pc = "fetch" \/ cancel_requested)

----------------------------------------------------------------------------
(* The threshold rules on their own *)

\* The variables the classifier and the normalizer do not touch, as __init__ leaves them.
RestAsConstructed ==
    /\ session = "None"
    /\ poll_task = "None"
    /\ listeners = <<>>
    /\ last_milestones = {}
    /\ poll_interval_ok = TRUE
    /\ stops_left = 0
    /\ listener_ops_left = 0
    /\ cancel_requested = FALSE
    /\ consecutive_errors = 0
    /\ endpoint = 1
    /\ data = EmptyDict
    /\ stage = "none"
    /\ idx = 1
    /\ event = NoEvent
    /\ announcements = <<>>
    /\ stop_pc = "idle"
    /\ emitted = <<>>
    /\ calls = <<>>
    /\ tried = <<>>
    /\ failed_cycles = 0
    /\ phase_before = "None"
    /\ fl100_armed = TRUE
    /\ fl100_expected = FALSE

rest == <<session, poll_task, listeners, last_milestones, poll_interval_ok, stops_left,
          listener_ops_left, cancel_requested, consecutive_errors, endpoint, data, stage,
          idx, event, announcements, stop_pc, emitted, calls, tried, failed_cycles,
          phase_before, fl100_armed, fl100_expected>>

\* Metrics on and next to every threshold of lines 170-184: feet, 0.001 kt, 0.001 ft/min.
AglValues == {0, 49, 50, 299, 300, 999, 1000, 3000, 3001}
SpeedValues == {0, 4999, 5000, 5001, 40000, 40001}
VerticalSpeedValues ==
    {-300001, -300000, -200000, -199999, -1, 0, 199999, 200000, 300000, 300001}

ClassInit ==
    /\ RestAsConstructed
    /\ FacadeAsConstructed
    /\ last_data = EmptyDict
    /\ last_phase = "None"
    /\ payloads_left = 0
    /\ pc = "classify"
    /\ \E a \in AglValues, g \in SpeedValues, v \in VerticalSpeedValues, o \in BOOLEAN :
          flight_data_cache = [altitude_agl_ft |-> a, speed_kt |-> g,
                               vertical_speed_fpm |-> v, on_ground |-> o]

\* _detect_flight_phase(flight_data) with no phase in self._last_data.
Classify ==
    /\ pc = "classify"
    /\ last_phase' = DetectFlightPhase(flight_data_cache, last_data)
    /\ pc' = "classified"
    /\ UNCHANGED <<rest, last_data, flight_data_cache, payloads_left>>
    /\ UNCHANGED facade

ClassSpec == ClassInit /\ [][Classify]_vars

\* The ordered list of rules 1-9 of the specification, on the metrics m.
RuleList(m) ==
    <<[when |-> m.on_ground /\ m.speed_kt < 5000, label |-> "parked"],
      [when |-> m.on_ground /\ m.speed_kt >= 5000, label |-> "taxiing"],
      [when |-> m.altitude_agl_ft < 50 /\ m.speed_kt > 40000, label |-> "takeoff"],
      [when |-> m.altitude_agl_ft < 1000 /\ m.vertical_speed_fpm > 300000,
       label |-> "climbing"],
      [when |-> /\ m.altitude_agl_ft > 3000
                /\ m.vertical_speed_fpm < 200000
                /\ m.vertical_speed_fpm > -200000,
       label |-> "cruise"],
      [when |-> m.vertical_speed_fpm < -300000, label |-> "descending"],
      [when |-> m.altitude_agl_ft < 300 /\ m.vertical_speed_fpm < 0, label |-> "approach"],
      [when |-> m.on_ground /\ m.speed_kt > 5000, label |-> "landing"],
      [when |-> TRUE, label |-> "unknown"]>>

\* First match wins.
FirstMatch(rules) ==
    rules[CHOOSE i \in 1..Len(rules) :
              rules[i].when /\ \A j \in 1..(i - 1) : ~rules[j].when].label

\* C16: with no phase from the source, _detect_flight_phase returns the label of
\* the first rule of the ordered list 1-9 that matches the metrics, 'unknown'
\* when none of rules 1-8 does, for every combination of values on and around
\* the thresholds.
C16_FirstMatchingRule ==
    pc = "classified" => last_phase = FirstMatch(RuleList(flight_data_cache))

\* On the ground at exactly 5 kt: rule 2, not rule 1 and not rule 8.
C16_Witness ==
    /\ pc = "classified"
    /\ flight_data_cache.on_ground
    /\ flight_data_cache.speed_kt = 5000
    /\ last_phase = "taxiing"

----------------------------------------------------------------------------
(* The normalizer on its own *)

\* The most samples accepted one after the other.
MaxNormSteps == 2

\* A field of a raw sample: present with a value, or missing.
Present(x) == [present |-> TRUE, v |-> x]
Missing == [present |-> FALSE]
Field(k, o) == IF o.present THEN k :> o.v ELSE EmptyDict

\* Raw samples as json.loads can return them: each field missing or present;
\* numeric fields negative, null or an unparseable string; the position an
\* object whose lat is null, or null itself; the phase of the source.
NormSamples ==
    {Field("indicated_altitude", alt) @@ Field("altitude_above_ground", agl)
        @@ Field("ground_speed", gs) @@ Field("on_ground", og)
        @@ Field("phase", ph) @@ Field("position", pos) :
        alt \in {Present(JNum(-200)), Present(JNull), Present(JStr)},
        agl \in {Present(JNum(2)), Present(JNum(4000))},
        gs \in {Missing, Present(JNum(300))},
        og \in {Missing, Present(TRUE), Present(FALSE)},
        ph \in {Missing, Present("Cruise"), Present("CLIMB")},
        pos \in {Missing, Present([t |-> "dict", lat |-> JNull]), Present(JNull)}}

\* The cruise sample of the specification's scenario: 35,000 ft, 231.6 m/s,
\* level, airborne, and no other field.
CruiseScenario ==
    [indicated_altitude |-> JNum(35000), ground_speed |-> JNum(2316),
     vertical_speed |-> JNum(0), on_ground |-> FALSE]

NormInputs == NormSamples \cup {CruiseScenario}

NormInit ==
    /\ RestAsConstructed
    /\ FacadeAsConstructed
    /\ last_data = EmptyDict
    /\ flight_data_cache = EmptyDict
    /\ last_phase = "None"
    /\ payloads_left = MaxNormSteps
    /\ pc = "normalize"

\* Lines 67-69 for a sample d the loop accepts.
Normalize ==
    /\ pc = "normalize"
    /\ payloads_left > 0
    /\ payloads_left' = payloads_left - 1
    /\ \E d \in NormInputs :
          /\ d # EmptyDict /\ d # last_data
          /\ last_data' = d
          /\ flight_data_cache' = UpdateFlightDataCache(d, flight_data_cache)
    /\ UNCHANGED <<rest, last_phase, pc>>
    /\ UNCHANGED facade

NormSpec == NormInit /\ [][Normalize]_vars

\* The snapshot is the one built from the sample accepted last.
SnapshotBuilt == last_data # EmptyDict /\ ~NormalizationRaises(last_data)

\* The ground speed of a raw sample, in 0.001 kt.
RawSpeedKt(d) == MsToKt(Num(SafeFloat(Get(d, "ground_speed", JNum(0)))))

\* C13: when the sample carries no phase, the phase of the snapshot built from it
\* is the threshold classification of that snapshot's own altitude_agl_ft,
\* speed_kt, vertical_speed_fpm and on_ground.
C13_PhaseOfNewMetrics ==
    (SnapshotBuilt /\ "phase" \notin DOMAIN last_data) =>
        flight_data_cache.phase = ThresholdRules(flight_data_cache)

\* C14: a sample with on_ground = true, a ground speed below 5 kt and no phase of
\* the source yields a snapshot whose phase is 'parked', whatever came before.
C14_ParkedOnGround ==
    (/\ SnapshotBuilt
     /\ "phase" \notin DOMAIN last_data
     /\ Get(last_data, "on_ground", FALSE)
     /\ RawSpeedKt(last_data) < 5000) =>
        flight_data_cache.phase = "parked"

PhaseSet ==
    {"parked", "taxiing", "takeoff", "climbing", "cruise", "descending", "approach",
     "landing", "unknown"}

\* C17: _last_phase, once set, and the phase of the snapshot are in the closed set.
C17_PhaseInClosedSet ==
    /\ last_phase \in PhaseSet \cup {"None"}
    /\ Get(flight_data_cache, "phase", "unknown") \in PhaseSet

\* C18: when the sample has an on_ground field, the snapshot's on_ground is its value.
C18_OnGroundFromSource ==
    (SnapshotBuilt /\ "on_ground" \in DOMAIN last_data) =>
        flight_data_cache.on_ground = last_data["on_ground"]

\* A numeric field of sample d that is missing, null or unparseable.
Defaulted(d, k) == k \notin DOMAIN d \/ d[k].t \in {"null", "str"}

\* C19: whatever numeric field of the accepted sample is missing, null or
\* unparseable (the position with its lat among them), the snapshot is replaced
\* by one built from the sample, in which that field is 0.0.
C19_MissingFieldsDefault ==
    last_data # EmptyDict =>
        /\ "raw_data" \in DOMAIN flight_data_cache
        /\ flight_data_cache.raw_data = last_data
        /\ Defaulted(last_data, "indicated_altitude") =>
              flight_data_cache.altitude_ft = JNum(0)
        /\ Defaulted(last_data, "position") => flight_data_cache.latitude = JNum(0)

\* C20: altitude_ft of the snapshot is never negative.
C20_AltitudeClamped ==
    ("altitude_ft" \in DOMAIN flight_data_cache /\ IsFinite(flight_data_cache.altitude_ft))
        => flight_data_cache.altitude_ft.v >= 0

----------------------------------------------------------------------------
(* Milestone detection on its own *)

\* The most snapshots handed to _check_milestones one after the other.
MaxMileSteps == 3

\* Altitudes below FL100, twice inside its band, in a higher band and several
\* bands higher; no waypoint and two waypoint names.
MileAltitudes == {9000, 10500, 10900, 12000, 25500}
MileWaypoints == {"", "A", "B"}

MileInit ==
    /\ RestAsConstructed
    /\ FacadeAsConstructed
    /\ last_data = EmptyDict
    /\ flight_data_cache = EmptyDict
    /\ last_phase = "None"
    /\ payloads_left = MaxMileSteps
    /\ pc = "milestones"

\* The flight levels announced by a list of announcements.
DeliveredLevels(ann) ==
    {ann[i].level : i \in {j \in 1..Len(ann) : ann[j].text = "Reached flight level"}}

\* The waypoint names announced by a list of announcements.
DeliveredWaypoints(ann) ==
    {ann[i].name : i \in {j \in 1..Len(ann) : ann[j].text = "Approaching waypoint"}}

\* The history after a detection on a snapshot: the names seen so far, and the
\* levels delivered at some cycle and not undershot by any cycle since.
LogAfter(log, snapshot, ann) ==
    [waypoints |-> log.waypoints \cup ({snapshot.next_waypoint} \ {""}),
     levels |-> {l \in log.levels \cup DeliveredLevels(ann) :
                    l <= FlightLevel(snapshot.altitude_ft.v)}]

\* Line 201 on the snapshot of a cycle: _check_milestones updates the registry
\* and returns the announcements.
MileStep ==
    /\ pc = "milestones"
    /\ payloads_left > 0
    /\ payloads_left' = payloads_left - 1
    /\ \E a \in MileAltitudes, w \in MileWaypoints :
          LET snapshot == [altitude_ft |-> JNum(a), next_waypoint |-> w]
              r == CheckMilestones(snapshot, last_milestones)
          IN  /\ flight_data_cache' = snapshot
              /\ last_milestones' = r.reg
              /\ announcements' = r.ann
              /\ milestone_log' = LogAfter(milestone_log, snapshot, r.ann)
    /\ UNCHANGED <<session, poll_task, listeners, poll_interval_ok, stops_left,
                   listener_ops_left, cancel_requested, consecutive_errors, endpoint, data,
                   stage, idx, event, stop_pc, emitted, calls, tried, failed_cycles,
                   phase_before, fl100_armed, fl100_expected, last_data, last_phase, pc,
                   airport_api_key, query, heap, held>>

MileSpec == MileInit /\ [][MileStep]_vars

C22_WaypointClearedOnChange ==
    [][LET w == flight_data_cache'.next_waypoint
           before == Get(flight_data_cache, "next_waypoint", "")
       IN  (payloads_left' < payloads_left /\ before # "" /\ w # "" /\ w # before) =>
              /\ WPKey(before) \notin last_milestones'
              /\ w \in DeliveredWaypoints(announcements')]_vars

\* C23: after every detection the registry holds no flight-level key above the
\* level of the snapshot; a level delivered earlier and not undershot since is
\* not announced; no detection announces two flight levels.
C23_FlightLevelRegistry ==
    /\ [](\A key \in last_milestones :
            key.prefix = "FL" =>
               key.level <= FlightLevel(Get(flight_data_cache, "altitude_ft", JNum(0)).v))
    /\ [](Cardinality({i \in 1..Len(announcements) :
                          announcements[i].text = "Reached flight level"}) <= 1)
    /\ [][payloads_left' < payloads_left =>
             DeliveredLevels(announcements') \cap milestone_log.levels = {}]_vars

\* FL100 was delivered, the aircraft stayed in the band, and nothing is announced.
C23_Witness ==
    /\ pc = "milestones"
    /\ 100 \in milestone_log.levels
    /\ FLKey(100) \in last_milestones
    /\ flight_data_cache.altitude_ft = JNum(10900)
    /\ DeliveredLevels(announcements) = {}

----------------------------------------------------------------------------
(* The query facade *)

\* Division by 1.943844 (line 293): hundredths of a knot in, m/s out.
KtToMs(k) == (k * 100) \div 19438

\* Division by 196.85 (line 297): 0.001 ft/min in, 0.1 m/s out.
FpmToMs(f) == f \div 19685

\* get_sim_info: the inactive result while _last_data is empty, otherwise the
\* fields read from the snapshot.
GetSimInfo(lastData, cache) ==
    IF lastData = EmptyDict
    THEN [active |-> FALSE]
    ELSE [active |-> TRUE,
          indicated_altitude |-> Get(cache, "altitude_ft", JNum(0)),
          altitude_above_ground |-> Get(cache, "altitude_agl_ft", 0),
          ground_speed |-> KtToMs(Get(cache, "speed_kt", 0)),
          vertical_speed |-> FpmToMs(Get(cache, "vertical_speed_fpm", 0)),
          position |-> [lat |-> Get(cache, "latitude", 0)],
          phase |-> Get(cache, "phase", "unknown"),
          next_wp_name |-> Get(cache, "next_waypoint", ""),
          on_ground |-> Get(cache, "on_ground", FALSE)]

\* C24: while the loop sleeps after a cycle in which every endpoint failed (the
\* resolver returned {}), get_sim_info returns the inactive result
\* {'active': False}.
C24_InactiveAfterAllFail ==
    (pc = "sleep" /\ data = EmptyDict) =>
        GetSimInfo(last_data, flight_data_cache) = [active |-> FALSE]

----------------------------------------------------------------------------
(* get_airport_info *)

\* What a GET can come to: the request raises (network error), or a response
\* arrives with a status and a body that resp.json() parses or rejects.
RequestRaises == [kind |-> "error", status |-> 0, parses |-> FALSE, value |-> EmptyDict]
Response(status, parses, value) ==
    [kind |-> "response", status |-> status, parses |-> parses, value |-> value]

\* The LittleNavmap airport endpoint: an airport, an empty body, a malformed
\* body, a non-200 status, a network error.
PrimaryOutcomes ==
    {Response(200, TRUE, [ident |-> "EDDF"]),
     Response(200, TRUE, EmptyDict),
     Response(200, FALSE, EmptyDict),
     Response(404, TRUE, [error |-> "not found"]),
     RequestRaises}

\* aviationstack: two records, no record, a body without 'data', a malformed
\* body, an error status, a network error.
SecondaryOutcomes ==
    {Response(200, TRUE, [data |-> <<[icao_code |-> "EDDF"], [icao_code |-> "EDDS"]>>]),
     Response(200, TRUE, [data |-> <<>>]),
     Response(200, TRUE, [error |-> "invalid key"]),
     Response(200, FALSE, EmptyDict),
     Response(403, TRUE, [error |-> "forbidden"]),
     RequestRaises}

\* _fetch_from_aviationstack: the first record of 'data'; {} with no session,
\* with no record, and on every exception (request, raise_for_status, json).
FetchFromAviationstack(sess, secondary) ==
    IF sess = "None" THEN EmptyDict
    ELSE IF secondary.kind = "error" \/ secondary.status >= 400 \/ ~secondary.parses
    THEN EmptyDict
    ELSE IF "data" \in DOMAIN secondary.value /\ secondary.value.data # <<>>
    THEN secondary.value.data[1]
    ELSE EmptyDict

\* get_airport_info: one try block around the primary request and the fallback.
GetAirportInfo(sess, key, primary, secondary) ==
    IF sess # "None" /\ (primary.kind = "error" \/ (primary.status = 200 /\ ~primary.parses))
    THEN EmptyDict
    ELSE IF sess # "None" /\ primary.status = 200 /\ primary.value # EmptyDict
    THEN primary.value
    ELSE IF key # "None"
    THEN FetchFromAviationstack(sess, secondary)
    ELSE EmptyDict

AirportInit ==
    /\ RestAsConstructed
    /\ last_data = EmptyDict
    /\ flight_data_cache = EmptyDict
    /\ last_phase = "None"
    /\ payloads_left = 0
    /\ pc = "airport"
    /\ query = NoQuery
    /\ heap = <<EmptyDict>>
    /\ held = {}
    /\ milestone_log = EmptyLog
    /\ airport_api_key \in {"None", "key"}

\* Everything but the session and the result of the query.
airport_rest ==
    <<poll_task, listeners, last_milestones, poll_interval_ok, stops_left,
      listener_ops_left, cancel_requested, consecutive_errors, endpoint, data, stage, idx,
      event, announcements, stop_pc, emitted, calls, tried, failed_cycles, phase_before,
      fl100_armed, fl100_expected, last_data, last_phase, flight_data_cache, payloads_left,
      pc, airport_api_key, heap, held, milestone_log>>

\* Line 35 of start(): the session exists from then on.
AirportSessionOpened ==
    /\ pc = "airport"
    /\ query = NoQuery
    /\ session = "None"
    /\ session' = "open"
    /\ UNCHANGED <<airport_rest, query>>

\* A call of get_airport_info(icao) and what the two sources answer to it.
AirportCall ==
    /\ pc = "airport"
    /\ query = NoQuery
    /\ \E primary \in PrimaryOutcomes, secondary \in SecondaryOutcomes :
          query' = [kind |-> "airport", primary |-> primary, secondary |-> secondary,
                    result |-> GetAirportInfo(session, airport_api_key, primary, secondary)]
    /\ UNCHANGED <<airport_rest, session>>

AirportSpec == AirportInit /\ [][AirportSessionOpened \/ AirportCall]_vars

\* The primary source answered 200 with a non-empty body.
PrimaryAnswered(q) ==
    q.primary.kind = "response" /\ q.primary.status = 200 /\ q.primary.parses
        /\ q.primary.value # EmptyDict

\* aviationstack answered with at least one record.
SecondaryAnswered(q) ==
    q.secondary.kind = "response" /\ q.secondary.status < 400 /\ q.secondary.parses
        /\ "data" \in DOMAIN q.secondary.value /\ q.secondary.value.data # <<>>

\* C25: with a session, get_airport_info returns the primary payload when the
\* primary answers 200 with a non-empty body; otherwise (empty body, non-200,
\* network error, malformed body), with a key configured, it returns the first
\* record of aviationstack; it returns {} when both fail.
C25_AirportFallback ==
    (query.kind = "airport" /\ session = "open") =>
        query.result = IF PrimaryAnswered(query) THEN query.primary.value
                       ELSE IF airport_api_key # "None" /\ SecondaryAnswered(query)
                       THEN query.secondary.value.data[1]
                       ELSE EmptyDict

----------------------------------------------------------------------------
(* The snapshot read by detection *)

\* C26: once detection has run in a cycle (line 72 has returned), the snapshot
\* it read was normalized from the sample accepted in that cycle: its raw_data
\* is _last_data.
C26_DetectionReadsCurrentSnapshot ==
    pc = "checked" =>
        /\ "raw_data" \in DOMAIN flight_data_cache
        /\ flight_data_cache.raw_data = last_data

----------------------------------------------------------------------------
(* The order of delivery within a cycle *)

\* The calls made for event number e of the cycle, in the order they were made.
CallsOf(e) == SelectSeq(calls, LAMBDA c : c.event = e)

\* The iteration over the listeners for the current event has ended.
DeliveryEnded == pc = "notify" /\ idx > Len(listeners)

\* The list of listeners was the same at every call made for event number e.
ListUnchangedDuring(e) == \A i \in 1..Len(CallsOf(e)) : CallsOf(e)[i].registered = listeners

----------------------------------------------------------------------------
(* Snapshots as objects: the current snapshot, events and queries *)

\* The most samples normalized one after the other.
MaxPublishes == 2

\* The assignment of line 127 done as an update of the dict that
\* self._flight_data_cache already names.
StoreInPlace(objects, snapshot) == [objects EXCEPT ![Len(objects)] = snapshot]

\* Line 127: the dict display builds a new object and the assignment binds
\* self._flight_data_cache to it; the objects before it stay as they are.
StoreSnapshot(objects, snapshot) == Append(objects, snapshot)

\* The return value None.
NoneValue == [t |-> "None"]

\* get_current_flight_data: None while the snapshot is empty, otherwise the
\* fields read from it.
GetCurrentFlightData(cache) ==
    IF cache = EmptyDict
    THEN NoneValue
    ELSE [aircraft |-> [altitude |-> Get(cache, "altitude_ft", JNum(0)),
                        speed |-> Get(cache, "speed_kt", 0),
                        vertical_speed |-> Get(cache, "vertical_speed_fpm", 0),
                        latitude |-> Get(cache, "latitude", 0),
                        on_ground |-> Get(cache, "on_ground", FALSE)],
          navigation |-> [phase |-> Get(cache, "phase", "unknown"),
                          next_waypoint |-> Get(cache, "next_waypoint", "")]]

SnapInit ==
    /\ RestAsConstructed
    /\ FacadeAsConstructed
    /\ last_data = EmptyDict
    /\ flight_data_cache = EmptyDict
    /\ last_phase = "None"
    /\ payloads_left = MaxPublishes
    /\ pc = "snapshots"

\* Everything but the sample, the snapshot objects, the events and the queries.
snap_rest == <<rest, last_phase, pc, airport_api_key, milestone_log>>

\* Lines 68-69: the accepted sample is stored and normalized; the snapshot, when
\* one is built, is a new object.
Publish ==
    /\ pc = "snapshots"
    /\ payloads_left > 0
    /\ payloads_left' = payloads_left - 1
    /\ \E d \in Samples :
          /\ d # last_data
          /\ last_data' = d
          /\ flight_data_cache' = UpdateFlightDataCache(d, flight_data_cache)
          /\ heap' = IF NormalizationRaises(d) THEN heap
                     ELSE StoreSnapshot(heap, NewSnapshot(d, flight_data_cache))
    /\ UNCHANGED <<snap_rest, held, query>>

\* Lines 254 and 264: an event is built with a reference to the current snapshot
\* and handed to the listeners, who keep it.
BuildEvent ==
    /\ pc = "snapshots"
    /\ held' = held \cup {[ref |-> Len(heap), built_with |-> heap[Len(heap)]]}
    /\ UNCHANGED <<snap_rest, last_data, flight_data_cache, heap, query, payloads_left>>

\* A caller's get_sim_info() or get_current_flight_data(): neither awaits, and
\* every field is read from the object self._flight_data_cache names.
ReadFacade ==
    /\ pc = "snapshots"
    /\ \/ query' = [kind |-> "sim_info",
                    result |-> GetSimInfo(last_data, heap[Len(heap)])]
       \/ query' = [kind |-> "flight_data",
                    result |-> GetCurrentFlightData(heap[Len(heap)])]
    /\ UNCHANGED <<snap_rest, last_data, flight_data_cache, heap, held, payloads_left>>

SnapSpec == SnapInit /\ [][Publish \/ BuildEvent \/ ReadFacade]_vars

\* C28: the result of a facade read is the view of one snapshot object, the
\* current one or one that was current before; and every event handed out still
\* refers to a snapshot equal to the one it was built with, whatever snapshots
\* were published since.
C28_SnapshotsNeverMixed ==
    /\ flight_data_cache = heap[Len(heap)]
    /\ (query.kind = "sim_info" /\ query.result.active) =>
          \E i \in 1..Len(heap) : query.result = GetSimInfo(last_data, heap[i])
    /\ query.kind = "flight_data" =>
          \E i \in 1..Len(heap) : query.result = GetCurrentFlightData(heap[i])
    /\ \A e \in held : heap[e.ref] = e.built_with

\* An event built with a snapshot that has been replaced by a different one, and
\* a read that returned the snapshot before the current one.
C28_Witness ==
    /\ pc = "snapshots"
    /\ \E e \in held : e.ref > 1 /\ e.ref < Len(heap) /\ heap[e.ref] # heap[Len(heap)]
    /\ query.kind = "flight_data"
    /\ query.result # GetCurrentFlightData(heap[Len(heap)])
    /\ query.result # NoneValue

----------------------------------------------------------------------------
(* start() and stop() one after the other *)

\* The runs in which stop() is called.
SeqInit == Init /\ stops_left > 0

\* start() called only while no stop() is in progress.
StartAfterStop == stop_pc = "idle" /\ Start

SeqNext ==
    \/ TaskBegin
    \/ FetchFails
    \/ FetchData
    \/ AcceptSample
    \/ SkipSameSample
    \/ NoData
    \/ FinishAccepted
    \/ NotifyCall
    \/ ListenerDone
    \/ RawDelivered
    \/ PhaseDelivered
    \/ MilestoneDelivered
    \/ Wake
    \/ ErrorHandler
    \/ WakeRetry
    \/ WakeBackoff
    \/ Cancelled
    \/ StartAfterStop
    \/ StopBegin
    \/ StopJoined
    \/ StopClosed
    \/ \E cb \in Callbacks : AddListener(cb)
    \/ \E cb \in Callbacks : RemoveListener(cb)

SeqSpec == SeqInit /\ [][SeqNext]_vars

\* C29: with start() and stop() called one after the other, between the calls a
\* poll task exists exactly when the session is open (after start(), not after
\* stop()); a step that opens the session creates the one task; no task is
\* created while one exists; stop() forgets the task once it has ended
\* cancelled, then closes the session and leaves both None; stop() with neither
\* task nor session changes nothing.
C29_StartStopSequence ==
    /\ [](stop_pc = "idle" => (poll_task = "task" <=> session = "open"))
    /\ [][(session = "None" /\ session' = "open") =>
             (poll_task = "None" /\ poll_task' = "task" /\ pc' = "created")]_vars
    /\ [][poll_task = "task" => (pc' = "created" => pc = "created")]_vars
    /\ [][(stop_pc = "idle" /\ stop_pc' = "joining") =>
             (poll_task = "task" /\ cancel_requested')]_vars
    /\ [][(stop_pc = "joining" /\ stop_pc' # "joining") =>
             (pc = "done" /\ poll_task' = "None" /\ stop_pc' = "closing")]_vars
    /\ [][(stop_pc = "closing" /\ stop_pc' # "closing") =>
             (session' = "None" /\ poll_task' = "None" /\ stop_pc' = "idle")]_vars
    /\ [][(stops_left' < stops_left /\ poll_task = "None") =>
             UNCHANGED <<engine, session, poll_task, listeners, stop_pc, cancel_requested,
                         poll>>]_vars

\* Running again after a flight and a stop(): the task of the second start().
C29_Witness ==
    /\ stop_pc = "idle"
    /\ stops_left = 0
    /\ last_data # EmptyDict
    /\ poll_task = "task"
    /\ session = "open"
    /\ pc = "created"

----------------------------------------------------------------------------
(* The milestone registry across restarts *)

\* C30: whenever start() creates the poll task, also after a stop(), the
\* milestone registry holds no key.
C30_RegistryEmptyAtStart ==
    [][(poll_task = "None" /\ poll_task' = "task") => last_milestones' = {}]_vars

----------------------------------------------------------------------------
(* The cruise scenario *)

\* C31: the snapshot built from the cruise sample (35,000 ft, 231.6 m/s, level,
\* airborne) has a ground speed of about 450 kt (within half a knot) and the
\* phase 'cruise'.
C31_CruiseScenario ==
    last_data = CruiseScenario =>
        /\ flight_data_cache.raw_data = CruiseScenario
        /\ flight_data_cache.speed_kt > 449500
        /\ flight_data_cache.speed_kt < 450500
        /\ flight_data_cache.phase = "cruise"

----------------------------------------------------------------------------
(* What reaches the error handler *)

\* C32: with a poll interval asyncio.sleep accepts, so that the faults are those
\* of the endpoints, the samples, the listeners and detection, no exception
\* reaches the handler of _poll_loop: consecutive_errors is 0 and the loop is
\* never in the handler, in its 5 s sleep or in its 30 s sleep.
C32_HandlerNeverReached ==
    poll_interval_ok =>
        /\ consecutive_errors = 0
        /\ pc \notin {"except", "sleep5", "sleep30"}

\* A cycle has run to the end of detection in which a listener raised and
\* milestone detection raised on an infinite altitude, with no error counted.
C32_Witness ==
    /\ poll_interval_ok
    /\ pc = "checked"
    /\ MilestonesRaise(flight_data_cache)
    /\ \E i \in 1..Len(calls) : Raises(calls[i].listener)
    /\ consecutive_errors = 0

----------------------------------------------------------------------------
(* The first sample after construction *)

----------------------------------------------------------------------------
(* The landing rule *)

----------------------------------------------------------------------------
(* Flight levels on the way down *)

\* C35: a detection that follows an earlier snapshot announces a flight level
\* only when the level of its snapshot is higher than the level of the snapshot
\* before it.
C35_FlightLevelOnlyOnClimb ==
    [][(/\ payloads_left' < payloads_left
        /\ flight_data_cache # EmptyDict
        /\ DeliveredLevels(announcements') # {}) =>
          FlightLevel(flight_data_cache'.altitude_ft.v)
             > FlightLevel(flight_data_cache.altitude_ft.v)]_vars

----------------------------------------------------------------------------
(* start() during stop() *)

\* C36: whenever no stop() is in progress (start() never suspends, so every
\* call has returned), a poll task exists exactly when the session is open.
C36_TaskIffSession ==
    stop_pc = "idle" => (poll_task = "task" <=> session = "open")

----------------------------------------------------------------------------
(* The list of listeners during a delivery *)

\* The most add_listener and remove_listener calls around one accepted sample.
MaxRegistryOps == 3

\* One flight of one sample, never stopped, with callers that register and
\* unregister listeners before, during and after its delivery.
NotifyInit ==
    /\ session = "None"
    /\ poll_task = "None"
    /\ listeners = <<>>
    /\ last_data = EmptyDict
    /\ last_milestones = {}
    /\ last_phase = "None"
    /\ flight_data_cache = EmptyDict
    /\ poll_interval_ok = TRUE
    /\ payloads_left = 1
    /\ stops_left = 0
    /\ listener_ops_left = MaxRegistryOps
    /\ pc = "none"
    /\ cancel_requested = FALSE
    /\ consecutive_errors = 0
    /\ endpoint = 1
    /\ data = EmptyDict
    /\ stage = "none"
    /\ idx = 1
    /\ event = NoEvent
    /\ announcements = <<>>
    /\ stop_pc = "idle"
    /\ emitted = <<>>
    /\ calls = <<>>
    /\ tried = <<>>
    /\ failed_cycles = 0
    /\ phase_before = "None"
    /\ fl100_armed = TRUE
    /\ fl100_expected = FALSE
    /\ FacadeAsConstructed

NotifyNext ==
    \/ Start
    \/ TaskBegin
    \/ FetchData
    \/ AcceptSample
    \/ NotifyCall
    \/ ListenerDone
    \/ RawDelivered
    \/ PhaseDelivered
    \/ MilestoneDelivered
    \/ FinishAccepted
    \/ \E cb \in Callbacks : AddListener(cb)
    \/ \E cb \in Callbacks : RemoveListener(cb)

NotifySpec == NotifyInit /\ [][NotifyNext]_vars

\* How many times x occurs in the sequence s.
Count(x, s) == Cardinality({i \in 1..Len(s) : s[i] = x})

\* The listeners called for event number e, in the order of the calls.
Called(e) == [i \in 1..Len(CallsOf(e)) |-> CallsOf(e)[i].listener]

\* C37: when the delivery of an event ends, every callback registered once when
\* the delivery began (the list at its first call) and once when it ends has
\* been called for the event exactly once, whatever add_listener and
\* remove_listener calls were made while the delivery awaited a listener.
C37_ListChangeDuringDelivery ==
    (DeliveryEnded /\ CallsOf(Len(emitted)) # <<>>) =>
        \A cb \in Callbacks :
            (/\ Count(cb, CallsOf(Len(emitted))[1].registered) = 1
             /\ Count(cb, listeners) = 1) =>
                Count(cb, Called(Len(emitted))) = 1

\* The sequence s without its element number i.
Without(s, i) == [j \in 1..(Len(s) - 1) |-> IF j < i THEN s[j] ELSE s[j + 1]]

----------------------------------------------------------------------------
(* What stop() leaves alone *)

\* What stop() is claimed not to touch.
kept_by_stop == <<last_data, flight_data_cache, last_phase, last_milestones, listeners>>

\* C39: no step of stop() (its call, the end of its wait for the task, the end
\* of session.close()) and no cancellation of the task changes _last_data, the
\* snapshot, _last_phase, the milestone registry or the list of listeners, so
\* get_sim_info returns after it what it returned before; and whenever the
\* fetched sample equals _last_data, also in a task started after a stop(), the
\* cycle delivers no event and changes none of them.
C39_StopFrame ==
    /\ [][(stops_left' < stops_left \/ stop_pc' # stop_pc \/ (pc' = "done" /\ pc # "done")) =>
             /\ UNCHANGED kept_by_stop
             /\ GetSimInfo(last_data', flight_data_cache')
                   = GetSimInfo(last_data, flight_data_cache)]_vars
    /\ [][(pc = "got_data" /\ data # EmptyDict /\ data = last_data) =>
             /\ pc' \in {"sleep", "except"}
             /\ emitted' = <<>>
             /\ calls' = <<>>
             /\ UNCHANGED kept_by_stop]_vars

\* The first cycle was cancelled by stop() during the raw delivery (no phase
\* was recorded); the task of a later start() fetched the same sample again and
\* sleeps without having delivered anything, and get_sim_info reports active.
C39_Witness ==
    /\ pc = "sleep"
    /\ poll_task = "task"
    /\ stops_left = 0
    /\ data # EmptyDict
    /\ data = last_data
    /\ last_phase = "None"
    /\ emitted = <<>>
    /\ GetSimInfo(last_data, flight_data_cache).active

----------------------------------------------------------------------------
(* The two query views *)

\* C40: between cycles (the loop sleeps, or no task runs) _last_data is
\* non-empty exactly when the snapshot is non-empty, the snapshot was built
\* from _last_data, and get_sim_info reports active exactly when
\* get_current_flight_data returns a view.
C40_QueryViewsAgree ==
    pc \in {"none", "sleep", "sleep5", "sleep30"} =>
        /\ last_data # EmptyDict <=> flight_data_cache # EmptyDict
        /\ flight_data_cache # EmptyDict => flight_data_cache.raw_data = last_data
        /\ GetSimInfo(last_data, flight_data_cache).active
              <=> GetCurrentFlightData(flight_data_cache) # NoneValue

====
